---- MODULE Spec2Model ----
(***************************************************************************)
(* Telemetry instrumentation of the task-board backend: the request        *)
(* middleware, the tracked storage operations, the task-count refresh, the *)
(* two sampler loops and the start-up / shutdown sequence of main.         *)
(*                                                                         *)
(* An instrument is modelled by what the exporter would accumulate for it: *)
(* a function from attribute sets (records) to the sum of the values added *)
(* (counters, up/down counters) or to the number of observations           *)
(* (histograms).                                                           *)
(***************************************************************************)
EXTENDS Integers, Sequences, FiniteSets, TLC

\* ---------------------------------------------------------------- bounds
NumReqs == 2
MaxTasks == 2
MaxTicks == 2
MaxHeap == 2
MaxGoroutines == 2
MaxPool == 2
MaxGen == 2

Reqs == 1..NumReqs
TaskIds == 1..MaxTasks
\* refresh runs: 0 is the call in main, r > 0 the one started by request r
Runs == 0..NumReqs

VARIABLES
    metrics,    \* instrument name -> (attribute set -> cumulative value)
    route,      \* request -> route it was dispatched to ("none" before arrival)
    clen,       \* request -> c.Request.ContentLength
    mwpc,       \* request -> position inside MetricsMiddleware
    hpc,        \* request -> position of the downstream handler
    status,     \* request -> c.Writer.Status()
    mwlog,      \* request -> emissions made on behalf of the request, in order
    calls,      \* request -> TrackDBOperation invocations of the request, in order
    tid,        \* request -> id path parameter (0 when unused)
    task,       \* request -> Completed state of the handler's local task
    todo,       \* request -> tasks the generate-tasks loop has still to create
    store,      \* task id -> "absent" | "open" | "done"
    refpc,      \* refresh run -> position inside UpdateTaskMetrics
    refN,       \* refresh run -> the local count (totalCount / completedCount)
    refSync,    \* refresh run -> TRUE when called inline (not with go)
    refFailed,  \* refresh run -> TRUE when a count query of the run failed
    ctxDone,    \* TRUE once the context handed to the sampler loops is cancelled
    tick,       \* sampler -> TRUE while a tick waits in the ticker's channel
    spc,        \* sampler -> "none" (not started) | "select" | "returned"
    ticks,      \* sampler -> number of ticks the loop has handled
    lastHeap,   \* memStats.Alloc as read on the last tick of collectSystemMetrics
    lastGoroutines, \* runtime.NumGoroutine() as read on that tick
    lastOpen,   \* stats.OpenConnections as read on the last tick of trackDBConnections
    mainpc,     \* position of main
    registered, \* names of the instruments created so far, in order
    meter,      \* TRUE once the package variable meter is set
    providers,  \* trace / metric provider: "none" | "active" | "shutdown"
    defers,     \* the deferred calls of main, the next to run first
    shutdownLog \* the shutdown handles that have run, in order

reqVars == <<route, clen, mwpc, hpc, status, mwlog, calls, tid, task, todo>>
refVars == <<refpc, refN, refSync, refFailed>>
samplerVars == <<ctxDone, tick, spc, ticks, lastHeap, lastGoroutines, lastOpen>>
mainVars == <<mainpc, registered, meter, providers, defers, shutdownLog>>

\* ------------------------------------------------------------ instruments
Instruments ==
    { "http_requests_total", "http_request_duration_seconds",
      "http_request_size_bytes", "http_response_size_bytes",
      "http_active_requests", "db_operations_total",
      "db_operation_duration_seconds", "db_connections_open",
      "tasks_total", "tasks_completed_total",
      "memory_usage_bytes", "goroutine_count" }

\* the instruments in the order initializeMetrics creates them
InstrumentTable ==
    << [name |-> "http_requests_total", kind |-> "counter", unit |-> "{request}"],
       [name |-> "http_request_duration_seconds", kind |-> "histogram", unit |-> "s"],
       [name |-> "http_request_size_bytes", kind |-> "histogram", unit |-> "By"],
       [name |-> "http_response_size_bytes", kind |-> "histogram", unit |-> "By"],
       [name |-> "http_active_requests", kind |-> "updown", unit |-> "{request}"],
       [name |-> "db_operations_total", kind |-> "counter", unit |-> "{operation}"],
       [name |-> "db_operation_duration_seconds", kind |-> "histogram", unit |-> "s"],
       [name |-> "db_connections_open", kind |-> "updown", unit |-> "{connection}"],
       [name |-> "tasks_total", kind |-> "updown", unit |-> "{task}"],
       [name |-> "tasks_completed_total", kind |-> "updown", unit |-> "{task}"],
       [name |-> "memory_usage_bytes", kind |-> "updown", unit |-> "By"],
       [name |-> "goroutine_count", kind |-> "updown", unit |-> "{goroutine}"] >>

Samplers == { "system", "dbconn" }

NoAttrs == [x \in {} |-> x]

\* instrument.Add(ctx, v, attrs) / instrument.Record(ctx, _, attrs) on one series
SeriesAdd(b, attrs, v) ==
    IF attrs \in DOMAIN b
    THEN [b EXCEPT ![attrs] = @ + v]
    ELSE [a \in DOMAIN b \cup {attrs} |-> IF a = attrs THEN v ELSE b[a]]

Emit(m, inst, attrs, v) == [m EXCEPT ![inst] = SeriesAdd(@, attrs, v)]

\* cumulative value of one series (0 when nothing was ever emitted on it)
Value(inst, attrs) ==
    IF attrs \in DOMAIN metrics[inst] THEN metrics[inst][attrs] ELSE 0

\* ------------------------------------------------------------------ routes
\* the routes requests of Spec arrive on; POST /debug/generate-tasks, whose
\* loop multiplies the states, is served in DebugSpec
Routes == { "getTasks", "createTask", "updateTask", "deleteTask",
            "debugMetrics", "clearTasks" }

Method(rt) ==
    CASE rt = "getTasks" -> "GET"
      [] rt = "createTask" -> "POST"
      [] rt = "updateTask" -> "PUT"
      [] rt = "deleteTask" -> "DELETE"
      [] rt = "debugMetrics" -> "GET"
      [] rt = "clearTasks" -> "DELETE"
      [] rt = "generateTasks" -> "POST"

FullPath(rt) ==
    CASE rt = "getTasks" -> "/api/tasks"
      [] rt = "createTask" -> "/api/tasks"
      [] rt = "updateTask" -> "/api/tasks/:id"
      [] rt = "deleteTask" -> "/api/tasks/:id"
      [] rt = "debugMetrics" -> "/debug/metrics"
      [] rt = "clearTasks" -> "/debug/clear-tasks"
      [] rt = "generateTasks" -> "/debug/generate-tasks"

\* -1: unknown length, 0: no body, 3: a body of three bytes
ContentLengths == { -1, 0, 3 }

\* --------------------------------------------------------- MetricsMiddleware
\* mwpc names the step the middleware performs next:
\*   idle -> size -> next -> count -> latency -> respsize -> exit -> done
\* and "panicked" when a panic of the downstream handler unwound through it.
MwNextPc_DecrementFirst(pc) ==
    CASE pc = "idle" -> "size"
      [] pc = "size" -> "next"
      [] pc = "next" -> "exit"
      [] pc = "exit" -> "count"
      [] pc = "count" -> "latency"
      [] pc = "latency" -> "respsize"
      [] pc = "respsize" -> "done"

MwNextPc_NoDecrement(pc) ==
    CASE pc = "idle" -> "size"
      [] pc = "size" -> "next"
      [] pc = "next" -> "count"
      [] pc = "count" -> "latency"
      [] pc = "latency" -> "respsize"
      [] pc = "respsize" -> "done"

MwNextPc(pc) ==
    CASE pc = "idle" -> "size"
      [] pc = "size" -> "next"
      [] pc = "next" -> "count"
      [] pc = "count" -> "latency"
      [] pc = "latency" -> "respsize"
      [] pc = "respsize" -> "exit"
      [] pc = "exit" -> "done"

MethodPath(r) == [method |-> Method(route[r]), path |-> FullPath(route[r])]

MethodPathStatus(r) ==
    [method |-> Method(route[r]), path |-> FullPath(route[r]), status |-> status[r]]

Emission(inst, v, attrs, by) == [inst |-> inst, val |-> v, attrs |-> attrs, by |-> by]

\* a request arrives on one of the given routes while r.Run serves:
\* activeRequests.Add(ctx, 1)
MwEnterOn(r, routes) ==
    /\ mainpc = "serving"
    /\ mwpc[r] = "idle"
    /\ IF r = 1 THEN TRUE ELSE mwpc[r - 1] # "idle"   \* requests are numbered as they arrive
    /\ \E rt \in routes, cl \in ContentLengths :
          /\ route' = [route EXCEPT ![r] = rt]
          /\ clen' = [clen EXCEPT ![r] = cl]
    /\ metrics' = Emit(metrics, "http_active_requests", NoAttrs, 1)
    /\ mwlog' = [mwlog EXCEPT ![r] =
                    Append(@, Emission("http_active_requests", 1, NoAttrs, "mw"))]
    /\ mwpc' = [mwpc EXCEPT ![r] = MwNextPc("idle")]
    /\ UNCHANGED <<hpc, status, calls, tid, task, todo, store, refVars, samplerVars, mainVars>>

MwEnter(r) == MwEnterOn(r, Routes)

\* the same for a request to POST /debug/generate-tasks
MwEnterGenerate(r) == MwEnterOn(r, {"generateTasks"})

HasRequestSize_NonZero(cl) == cl # 0

\* c.Request.ContentLength > 0
HasRequestSize(cl) == cl > 0

\* if ContentLength > 0 { requestSize.Record(...) }; start := time.Now(); c.Next()
MwRequestSize(r) ==
    /\ mwpc[r] = "size"
    /\ IF HasRequestSize(clen[r])
       THEN /\ metrics' = Emit(metrics, "http_request_size_bytes", MethodPath(r), 1)
            /\ mwlog' = [mwlog EXCEPT ![r] =
                  Append(@, Emission("http_request_size_bytes", clen[r],
                                     MethodPath(r), "mw"))]
       ELSE UNCHANGED <<metrics, mwlog>>
    /\ mwpc' = [mwpc EXCEPT ![r] = MwNextPc("size")]
    /\ hpc' = [hpc EXCEPT ![r] = "start"]
    /\ UNCHANGED <<route, clen, status, calls, tid, task, todo, store, refVars, samplerVars, mainVars>>

\* one emission of the middleware after c.Next() has returned
MwAfterNext(r, pc, inst, v, attrs) ==
    /\ mwpc[r] = pc
    /\ hpc[r] = "done"
    /\ metrics' = Emit(metrics, inst, attrs, v)
    /\ mwlog' = [mwlog EXCEPT ![r] = Append(@, Emission(inst, v, attrs, "mw"))]
    /\ mwpc' = [mwpc EXCEPT ![r] = MwNextPc(pc)]
    /\ UNCHANGED <<route, clen, hpc, status, calls, tid, task, todo, store, refVars, samplerVars, mainVars>>

\* requestCount.Add(ctx, 1, method, path, status)
MwCount(r) ==
    MwAfterNext(r, "count", "http_requests_total", 1, MethodPathStatus(r))

\* latency.Record(ctx, duration, method, path, status)
MwLatency(r) ==
    MwAfterNext(r, "latency", "http_request_duration_seconds", 1, MethodPathStatus(r))

\* responseSize.Record(ctx, c.Writer.Size(), method, path, status)
MwResponseSize(r) ==
    MwAfterNext(r, "respsize", "http_response_size_bytes", 1, MethodPathStatus(r))

\* activeRequests.Add(ctx, -1)
MwExit(r) ==
    MwAfterNext(r, "exit", "http_active_requests", -1, NoAttrs)

\* ---------------------------------------------------------- TrackDBOperation
\* One record per invocation: pc is "work" (counter added, f not yet run),
\* "record" (f returned), "returned" or "panicked"; runs counts the invocations
\* of f, result is what f returned, obs holds the attribute sets of the latency
\* observations made and ret is the value handed back to the caller.
NewCall(op) ==
    [op |-> op, pc |-> "work", runs |-> 0, result |-> "none",
     obs |-> <<>>, ret |-> "none"]

LastCall(r) == calls[r][Len(calls[r])]

\* attribute.Bool("success", err == nil)
SuccessTag_AlwaysTrue(err) == TRUE

SuccessTag(err) == err = "nil"

\* return err
TrackReturn_Swallow(err) == "nil"

TrackReturn(err) == err

\* start := time.Now(); dbOperations.Add(ctx, 1, operation)
TrackBegin(r, op) ==
    /\ metrics' = Emit(metrics, "db_operations_total", [operation |-> op], 1)
    /\ calls' = [calls EXCEPT ![r] = Append(@, NewCall(op))]
    /\ hpc' = [hpc EXCEPT ![r] = "tracking"]

\* c.JSON(code, ...) / c.Status(code); return (the handler's locals are gone)
Respond(r, code) ==
    /\ status' = [status EXCEPT ![r] = code]
    /\ hpc' = [hpc EXCEPT ![r] = "done"]
    /\ mwpc' = [mwpc EXCEPT ![r] = MwNextPc("next")]
    /\ tid' = [tid EXCEPT ![r] = 0]
    /\ todo' = [todo EXCEPT ![r] = 0]
    /\ task' = [task EXCEPT ![r] = "none"]

FreeIds == { i \in TaskIds : store[i] = "absent" }

Min(S) == CHOOSE x \in S : \A y \in S : x <= y

\* can the storage call of the operation return nil in the current store
WorkCanSucceed(r, op) ==
    CASE op = "create_task" -> FreeIds # {}
      [] op = "find_task" -> store[tid[r]] # "absent"
      [] OTHER -> TRUE

\* the store after the storage call of the operation returned nil
WorkEffect(r, op) ==
    CASE op = "create_task" -> [store EXCEPT ![Min(FreeIds)] = task[r]]
      [] op = "update_task" -> [store EXCEPT ![tid[r]] = task[r]]
      [] op = "delete_task" -> [store EXCEPT ![tid[r]] = "absent"]
      [] op = "delete_all_tasks" -> [i \in TaskIds |-> "absent"]
      [] OTHER -> store

\* err := f(), the wrapped storage call returning nil or an error
TrackWork(r) ==
    /\ hpc[r] = "tracking"
    /\ LastCall(r).pc = "work"
    /\ \E res \in {"nil", "err"} :
          /\ res = "nil" => WorkCanSucceed(r, LastCall(r).op)
          /\ store' = IF res = "nil" THEN WorkEffect(r, LastCall(r).op) ELSE store
          /\ task' = IF res = "nil" /\ LastCall(r).op = "find_task"
                     THEN [task EXCEPT ![r] = store[tid[r]]]
                     ELSE task
          /\ calls' = [calls EXCEPT ![r][Len(calls[r])] =
                [@ EXCEPT !.pc = "record", !.runs = @ + 1, !.result = res]]
    /\ UNCHANGED <<metrics, route, clen, mwpc, hpc, status, mwlog, tid, todo, refVars, samplerVars, mainVars>>

TrackWorkPanic_DeferredRecord(r) ==
    /\ hpc[r] = "tracking"
    /\ LastCall(r).pc = "work"
    /\ metrics' = Emit(metrics, "db_operation_duration_seconds",
                       [operation |-> LastCall(r).op, success |-> TRUE], 1)
    /\ calls' = [calls EXCEPT ![r][Len(calls[r])] =
          [@ EXCEPT !.pc = "panicked", !.runs = @ + 1, !.result = "panic"]]
    /\ hpc' = [hpc EXCEPT ![r] = "panicked"]
    /\ mwpc' = [mwpc EXCEPT ![r] = "panicked"]
    /\ status' = [status EXCEPT ![r] = 500]
    /\ tid' = [tid EXCEPT ![r] = 0]
    /\ todo' = [todo EXCEPT ![r] = 0]
    /\ task' = [task EXCEPT ![r] = "none"]
    /\ UNCHANGED <<route, clen, mwlog, store, refVars, samplerVars, mainVars>>

\* f() panics: the panic unwinds through TrackDBOperation, the handler and
\* MetricsMiddleware up to gin's Recovery middleware, which answers 500
TrackWorkPanic(r) ==
    /\ hpc[r] = "tracking"
    /\ LastCall(r).pc = "work"
    /\ calls' = [calls EXCEPT ![r][Len(calls[r])] =
          [@ EXCEPT !.pc = "panicked", !.runs = @ + 1, !.result = "panic"]]
    /\ hpc' = [hpc EXCEPT ![r] = "panicked"]
    /\ mwpc' = [mwpc EXCEPT ![r] = "panicked"]
    /\ status' = [status EXCEPT ![r] = 500]
    /\ tid' = [tid EXCEPT ![r] = 0]
    /\ todo' = [todo EXCEPT ![r] = 0]
    /\ task' = [task EXCEPT ![r] = "none"]
    /\ UNCHANGED <<metrics, route, clen, mwlog, store, refVars, samplerVars, mainVars>>

StartRefresh_Never(k, sync) == UNCHANGED <<refpc, refN, refSync, refFailed>>

\* go UpdateTaskMetrics(ctx) / UpdateTaskMetrics(ctx)
StartRefresh(k, sync) ==
    /\ refpc' = [refpc EXCEPT ![k] = "total"]
    /\ refSync' = [refSync EXCEPT ![k] = sync]
    /\ UNCHANGED <<refN, refFailed>>

\* the status a handler answers when its tracked operation returned nil
OkStatus(op) ==
    CASE op = "create_task" -> 201
      [] op = "delete_task" -> 204
      [] OTHER -> 200

\* the status a handler answers when its tracked operation returned an error
ErrStatus(op) == IF op = "find_task" THEN 404 ELSE 500

\* dbOperationLatency.Record(ctx, duration, operation, success); return err;
\* then the caller's code up to its next blocking call or its return
TrackRecord(r) ==
    /\ hpc[r] = "tracking"
    /\ LastCall(r).pc = "record"
    /\ LET c == LastCall(r)
           tags == [operation |-> c.op, success |-> SuccessTag(c.result)]
           err == TrackReturn(c.result)
       IN  /\ metrics' = Emit(metrics, "db_operation_duration_seconds", tags, 1)
           /\ calls' = [calls EXCEPT ![r][Len(calls[r])] =
                 [@ EXCEPT !.pc = "returned", !.obs = Append(@, tags), !.ret = err]]
           /\ IF err # "nil"
              THEN Respond(r, ErrStatus(c.op)) /\ UNCHANGED refVars
              ELSE CASE c.op = "find_task" ->
                          /\ hpc' = [hpc EXCEPT ![r] = "bind"]
                          /\ UNCHANGED <<status, mwpc, tid, task, todo, refVars>>
                     [] c.op = "delete_all_tasks" ->
                          /\ hpc' = [hpc EXCEPT ![r] = "refresh"]
                          /\ StartRefresh(r, TRUE)
                          /\ UNCHANGED <<status, mwpc, tid, task, todo>>
                     [] route[r] = "generateTasks" ->
                          /\ hpc' = [hpc EXCEPT ![r] = "loop"]
                          /\ UNCHANGED <<status, mwpc, tid, task, todo, refVars>>
                     [] OTHER ->
                          /\ StartRefresh(r, FALSE)
                          /\ Respond(r, OkStatus(c.op))
    /\ UNCHANGED <<route, clen, mwlog, store, samplerVars, mainVars>>

\* ------------------------------------------------------------------ handlers
\* Each handler action is the handler's code from its entry (or from the
\* return of a tracked operation) up to the counter increment of its next
\* TrackDBOperation call, or up to its return.
IdParams == TaskIds \cup {0}     \* 0: strconv.Atoi fails on the id parameter

getTasks(r) ==
    /\ hpc[r] = "start" /\ route[r] = "getTasks"
    /\ TrackBegin(r, "query_all_tasks")
    /\ UNCHANGED <<route, clen, mwpc, status, mwlog, tid, task, todo, store, refVars, samplerVars, mainVars>>

createTask(r) ==
    /\ hpc[r] = "start" /\ route[r] = "createTask"
    /\ \E bound \in BOOLEAN :
          IF bound
          THEN /\ task' = [task EXCEPT ![r] = "open"]
               /\ TrackBegin(r, "create_task")
               /\ UNCHANGED <<mwpc, status, tid, todo>>
          ELSE /\ Respond(r, 400)
               /\ UNCHANGED <<metrics, calls>>
    /\ UNCHANGED <<route, clen, mwlog, store, refVars, samplerVars, mainVars>>

updateTask(r) ==
    /\ hpc[r] = "start" /\ route[r] = "updateTask"
    /\ \E id \in IdParams :
          IF id # 0
          THEN /\ tid' = [tid EXCEPT ![r] = id]
               /\ TrackBegin(r, "find_task")
               /\ UNCHANGED <<mwpc, status, task, todo>>
          ELSE /\ Respond(r, 400)
               /\ UNCHANGED <<metrics, calls>>
    /\ UNCHANGED <<route, clen, mwlog, store, refVars, samplerVars, mainVars>>

\* c.ShouldBindJSON(&input); task.Completed = *input.Completed; update_task
updateTaskBind(r) ==
    /\ hpc[r] = "bind"
    /\ \E input \in {"invalid", "unset", "open", "done"} :
          IF input # "invalid"
          THEN /\ task' = [task EXCEPT ![r] = IF input = "unset" THEN @ ELSE input]
               /\ TrackBegin(r, "update_task")
               /\ UNCHANGED <<mwpc, status, tid, todo>>
          ELSE /\ Respond(r, 400)
               /\ UNCHANGED <<metrics, calls>>
    /\ UNCHANGED <<route, clen, mwlog, store, refVars, samplerVars, mainVars>>

deleteTask(r) ==
    /\ hpc[r] = "start" /\ route[r] = "deleteTask"
    /\ \E id \in IdParams :
          IF id # 0
          THEN /\ tid' = [tid EXCEPT ![r] = id]
               /\ TrackBegin(r, "delete_task")
               /\ UNCHANGED <<mwpc, status, task, todo>>
          ELSE /\ Respond(r, 400)
               /\ UNCHANGED <<metrics, calls>>
    /\ UNCHANGED <<route, clen, mwlog, store, refVars, samplerVars, mainVars>>

DebugAttrs == [method |-> "DEBUG", path |-> "/debug/metrics", status |-> 200]

\* debug.GET("/metrics", ...)
debugMetrics(r) ==
    /\ hpc[r] = "start" /\ route[r] = "debugMetrics"
    /\ metrics' = Emit(metrics, "http_requests_total", DebugAttrs, 1)
    /\ mwlog' = [mwlog EXCEPT ![r] =
          Append(@, Emission("http_requests_total", 1, DebugAttrs, "handler"))]
    /\ Respond(r, 200)
    /\ UNCHANGED <<route, clen, calls, store, refVars, samplerVars, mainVars>>

\* debug.DELETE("/clear-tasks", ...)
clearTasks(r) ==
    /\ hpc[r] = "start" /\ route[r] = "clearTasks"
    /\ TrackBegin(r, "delete_all_tasks")
    /\ UNCHANGED <<route, clen, mwpc, status, mwlog, tid, task, todo, store, refVars, samplerVars, mainVars>>

\* clear-tasks after its inline UpdateTaskMetrics returned: c.JSON(200, ...)
clearTasksRespond(r) ==
    /\ hpc[r] = "refresh" /\ route[r] = "clearTasks"
    /\ refpc[r] = "done"
    /\ Respond(r, 200)
    /\ UNCHANGED <<metrics, route, clen, mwlog, calls, store, refVars, samplerVars, mainVars>>

\* the values of the count query parameter (the code accepts 1..100 and
\* takes 10 when it is absent or invalid)
GenCounts == 1..MaxGen

\* debug.POST("/generate-tasks", ...): count is read from the query
generateTasks(r) ==
    /\ hpc[r] = "start" /\ route[r] = "generateTasks"
    /\ \E count \in GenCounts : todo' = [todo EXCEPT ![r] = count]
    /\ hpc' = [hpc EXCEPT ![r] = "loop"]
    /\ UNCHANGED <<metrics, route, clen, mwpc, status, mwlog, calls, tid, task, store,
                   refVars, samplerVars, mainVars>>

\* for i := 0; i < count; i++ { ...; TrackDBOperation("create_task", ...) };
\* after the loop the inline UpdateTaskMetrics(ctx)
generateTasksLoop(r) ==
    /\ hpc[r] = "loop"
    /\ IF todo[r] > 0
       THEN /\ \E completed \in {"open", "done"} :
                  task' = [task EXCEPT ![r] = completed]
            /\ todo' = [todo EXCEPT ![r] = @ - 1]
            /\ TrackBegin(r, "create_task")
            /\ UNCHANGED refVars
       ELSE /\ hpc' = [hpc EXCEPT ![r] = "refresh"]
            /\ StartRefresh(r, TRUE)
            /\ UNCHANGED <<metrics, calls, task, todo>>
    /\ UNCHANGED <<route, clen, mwpc, status, mwlog, tid, store, samplerVars, mainVars>>

\* generate-tasks after its inline UpdateTaskMetrics returned: c.JSON(200, ...)
generateTasksRespond(r) ==
    /\ hpc[r] = "refresh" /\ route[r] = "generateTasks"
    /\ refpc[r] = "done"
    /\ Respond(r, 200)
    /\ UNCHANGED <<metrics, route, clen, mwlog, calls, store, refVars, samplerVars, mainVars>>

\* --------------------------------------------------------- UpdateTaskMetrics
\* refpc: none -> total -> totalAdd -> completed -> completedAdd -> done
TotalCount == Cardinality({ i \in TaskIds : store[i] # "absent" })

CompletedCount == Cardinality({ i \in TaskIds : store[i] = "done" })

ResetDelta_Missing(n) == 0

\* taskCount.Add(ctx, -totalCount)
ResetDelta(n) == 0 - n

\* taskCount.Add(ctx, totalCount)
SetDelta(n) == n

AfterQuery_Retry(ok, pc, nextpc) == IF ok THEN nextpc ELSE pc

\* where the run goes on after a count query: the error of Count is not
\* looked at, the next statement follows either way
AfterQuery(ok, pc, nextpc) == nextpc

\* DB.Model(&Task{}).Count(&n); gauge.Add(ctx, -n)
\* (a failed query leaves n at 0; its error is not looked at)
RefreshCount(k, pc, inst, n, nextpc) ==
    /\ refpc[k] = pc
    /\ \E ok \in BOOLEAN :
          /\ refN' = [refN EXCEPT ![k] = IF ok THEN n ELSE 0]
          /\ refFailed' = [refFailed EXCEPT ![k] = @ \/ ~ok]
          /\ refpc' = [refpc EXCEPT ![k] = AfterQuery(ok, pc, nextpc)]
    /\ metrics' = Emit(metrics, inst, NoAttrs, ResetDelta(refN'[k]))
    /\ UNCHANGED <<reqVars, store, refSync, samplerVars, mainVars>>

\* gauge.Add(ctx, n)
RefreshAdd(k, pc, inst, nextpc) ==
    /\ refpc[k] = pc
    /\ metrics' = Emit(metrics, inst, NoAttrs, SetDelta(refN[k]))
    /\ refN' = [refN EXCEPT ![k] = 0]
    /\ refpc' = [refpc EXCEPT ![k] = nextpc]
    /\ UNCHANGED <<reqVars, store, refSync, refFailed, samplerVars, mainVars>>

RefreshTotal(k) == RefreshCount(k, "total", "tasks_total", TotalCount, "totalAdd")

RefreshTotalAdd(k) == RefreshAdd(k, "totalAdd", "tasks_total", "completed")

RefreshCompleted(k) ==
    RefreshCount(k, "completed", "tasks_completed_total", CompletedCount,
                 "completedAdd")

RefreshCompletedAdd(k) ==
    RefreshAdd(k, "completedAdd", "tasks_completed_total", "done")

\* ------------------------------------------------------- request handling
\* The service while it serves requests: instruments registered, the refresh
\* of main done, the store empty.
Init ==
    /\ metrics = [i \in Instruments |-> <<>>]
    /\ route = [r \in Reqs |-> "none"]
    /\ clen = [r \in Reqs |-> 0]
    /\ mwpc = [r \in Reqs |-> "idle"]
    /\ hpc = [r \in Reqs |-> "idle"]
    /\ status = [r \in Reqs |-> 200]
    /\ mwlog = [r \in Reqs |-> <<>>]
    /\ calls = [r \in Reqs |-> <<>>]
    /\ tid = [r \in Reqs |-> 0]
    /\ todo = [r \in Reqs |-> 0]
    /\ task = [r \in Reqs |-> "none"]
    /\ store = [i \in TaskIds |-> "absent"]
    /\ refpc = [k \in Runs |-> IF k = 0 THEN "done" ELSE "none"]
    /\ refN = [k \in Runs |-> 0]
    /\ refSync = [k \in Runs |-> k = 0]
    /\ refFailed = [k \in Runs |-> FALSE]
    /\ ctxDone = FALSE
    /\ tick = [s \in Samplers |-> FALSE]
    /\ spc = [s \in Samplers |-> "select"]
    /\ ticks = [s \in Samplers |-> 0]
    /\ lastHeap = 0
    /\ lastGoroutines = 0
    /\ lastOpen = 0
    /\ mainpc = "serving"
    /\ registered = [i \in 1..Len(InstrumentTable) |-> InstrumentTable[i].name]
    /\ meter = TRUE
    /\ providers = [trace |-> "active", metric |-> "active"]
    /\ defers = <<"shutdownMetrics", "shutdownTracer">>
    /\ shutdownLog = <<>>

vars == <<metrics, reqVars, store, refVars, samplerVars, mainVars>>

Next ==
    \/ \E r \in Reqs : MwEnter(r)
    \/ \E r \in Reqs : MwRequestSize(r)
    \/ \E r \in Reqs : MwCount(r)
    \/ \E r \in Reqs : MwLatency(r)
    \/ \E r \in Reqs : MwResponseSize(r)
    \/ \E r \in Reqs : MwExit(r)
    \/ \E r \in Reqs : getTasks(r)
    \/ \E r \in Reqs : createTask(r)
    \/ \E r \in Reqs : updateTask(r)
    \/ \E r \in Reqs : updateTaskBind(r)
    \/ \E r \in Reqs : deleteTask(r)
    \/ \E r \in Reqs : debugMetrics(r)
    \/ \E r \in Reqs : clearTasks(r)
    \/ \E r \in Reqs : clearTasksRespond(r)
    \/ \E r \in Reqs : TrackWork(r)
    \/ \E r \in Reqs : TrackWorkPanic(r)
    \/ \E r \in Reqs : TrackRecord(r)
    \/ \E k \in Runs : RefreshTotal(k)
    \/ \E k \in Runs : RefreshTotalAdd(k)
    \/ \E k \in Runs : RefreshCompleted(k)
    \/ \E k \in Runs : RefreshCompletedAdd(k)

Spec == Init /\ [][Next]_vars

\* Spec with the generate-tasks debug endpoint served as well
DebugNext ==
    \/ Next
    \/ \E r \in Reqs : MwEnterGenerate(r)
    \/ \E r \in Reqs : generateTasks(r)
    \/ \E r \in Reqs : generateTasksLoop(r)
    \/ \E r \in Reqs : generateTasksRespond(r)

DebugSpec == Init /\ [][DebugNext]_vars

\* ------------------------------------------------------------ sampler loops
\* collectSystemMetrics(ctx) and trackDBConnections(ctx, db): a ticker whose
\* channel holds at most one tick, and a select between that channel and
\* ctx.Done(). When both are ready the select takes either.
MaxOpenConns == 20

ProcessAlive == mainpc \notin {"exited", "fatal"}

\* the ticker fires (a tick is dropped while one is still waiting)
TickerFires(s) ==
    /\ ProcessAlive
    /\ spc[s] = "select"
    /\ ~tick[s]
    /\ ticks[s] < MaxTicks
    /\ tick' = [tick EXCEPT ![s] = TRUE]
    /\ UNCHANGED <<metrics, reqVars, store, refVars, mainVars,
                   ctxDone, spc, ticks, lastHeap, lastGoroutines, lastOpen>>

\* memoryUsage.Add(ctx, int64(memStats.Alloc), type=heap)
HeapDelta(alloc) == alloc

\* goroutineCount.Add(ctx, n - n, type=user); goroutineCount.Add(ctx, n, type=user)
GoroutineDelta(n) == (n - n) + n

\* case <-ticker.C: of collectSystemMetrics
CollectTick ==
    /\ ProcessAlive
    /\ spc["system"] = "select"
    /\ tick["system"]
    /\ \E alloc \in 1..MaxHeap, n \in 1..MaxGoroutines :
          /\ metrics' =
                Emit(Emit(metrics, "memory_usage_bytes", [type |-> "heap"],
                          HeapDelta(alloc)),
                     "goroutine_count", [type |-> "user"], GoroutineDelta(n))
          /\ lastHeap' = alloc
          /\ lastGoroutines' = n
    /\ tick' = [tick EXCEPT !["system"] = FALSE]
    /\ ticks' = [ticks EXCEPT !["system"] = @ + 1]
    /\ UNCHANGED <<reqVars, store, refVars, mainVars, ctxDone, spc, lastOpen>>

\* dbConnectionsOpen.Add(ctx, -open); dbConnectionsOpen.Add(ctx, open)
OpenDelta(open) == (0 - open) + open

PoolAttrs(idle, inUse) ==
    [idle |-> idle, in_use |-> inUse, max_open |-> MaxOpenConns]

\* case <-ticker.C: of trackDBConnections
TrackConnectionsTick ==
    /\ ProcessAlive
    /\ spc["dbconn"] = "select"
    /\ tick["dbconn"]
    /\ \E open \in 0..MaxPool :
          \E idle \in 0..open :
             /\ metrics' =
                   Emit(Emit(metrics, "db_connections_open", NoAttrs, OpenDelta(open)),
                        "db_connections_open", PoolAttrs(idle, open - idle), 0)
             /\ lastOpen' = open
    /\ tick' = [tick EXCEPT !["dbconn"] = FALSE]
    /\ ticks' = [ticks EXCEPT !["dbconn"] = @ + 1]
    /\ UNCHANGED <<reqVars, store, refVars, mainVars, ctxDone, spc,
                   lastHeap, lastGoroutines>>

SamplerReturns_Break(s) ==
    /\ ProcessAlive
    /\ spc[s] = "select"
    /\ ctxDone
    /\ UNCHANGED vars

\* case <-ctx.Done(): return (the deferred ticker.Stop() runs)
SamplerReturns(s) ==
    /\ ProcessAlive
    /\ spc[s] = "select"
    /\ ctxDone
    /\ spc' = [spc EXCEPT ![s] = "returned"]
    /\ tick' = [tick EXCEPT ![s] = FALSE]
    /\ UNCHANGED <<metrics, reqVars, store, refVars, mainVars,
                   ctxDone, ticks, lastHeap, lastGoroutines, lastOpen>>

\* the owner of the context cancels it
Cancel ==
    /\ ~ctxDone
    /\ ctxDone' = TRUE
    /\ UNCHANGED <<metrics, reqVars, store, refVars, mainVars,
                   tick, spc, ticks, lastHeap, lastGoroutines, lastOpen>>

\* The two loops run on one cancellable context, as their signatures allow.
SamplerNext ==
    \/ \E s \in Samplers : TickerFires(s)
    \/ CollectTick
    \/ TrackConnectionsTick
    \/ \E s \in Samplers : SamplerReturns(s)
    \/ Cancel

SamplerSpec == Init /\ [][SamplerNext]_vars

\* SamplerSpec under the fairness of select: a case that stays ready is taken
\* (select picks among the ready cases at random), ticks may or may not come
SamplerFairSpec ==
    /\ Init
    /\ [][SamplerNext]_vars
    /\ \A s \in Samplers : WF_vars(SamplerReturns(s))

Fatal_ServeDegraded ==
    /\ mainpc' = "serving"
    /\ UNCHANGED <<registered, meter, providers, defers, shutdownLog>>

\* ----------------------------------------------------------------------- main
\* mainpc: initDB -> initTracer -> initMetrics -> instruments -> samplers ->
\*         dbHandle -> refresh -> serving -> deferred -> exited, or "fatal"
\* after a log.Fatalf (which ends the process without running deferred calls).
Fatal ==
    /\ mainpc' = "fatal"
    /\ UNCHANGED <<registered, meter, providers, defers, shutdownLog>>

\* initDB(): open, migrate, instrument and configure the database; the first
\* measurement is made only if meter is already set
initDB ==
    /\ mainpc = "initDB"
    /\ \E ok \in BOOLEAN :
          IF ok
          THEN /\ metrics' = IF meter
                             THEN Emit(metrics, "db_connections_open",
                                       [db_name |-> "taskboard", db_host |-> "localhost"], 0)
                             ELSE metrics
               /\ mainpc' = "initTracer"
               /\ UNCHANGED <<registered, meter, providers, defers, shutdownLog>>
          ELSE Fatal /\ UNCHANGED metrics
    /\ UNCHANGED <<reqVars, store, refVars, samplerVars>>

\* shutdownTracer := initTracer(ctx); defer shutdownTracer()
initTracer ==
    /\ mainpc = "initTracer"
    /\ \E ok \in BOOLEAN :
          IF ok
          THEN /\ providers' = [providers EXCEPT !.trace = "active"]
               /\ defers' = <<"shutdownTracer">> \o defers
               /\ mainpc' = "initMetrics"
               /\ UNCHANGED <<registered, meter, shutdownLog>>
          ELSE Fatal
    /\ UNCHANGED <<metrics, reqVars, store, refVars, samplerVars>>

\* initMetrics(ctx) up to meter = mp.Meter(...)
initMetrics ==
    /\ mainpc = "initMetrics"
    /\ \E ok \in BOOLEAN :
          IF ok
          THEN /\ providers' = [providers EXCEPT !.metric = "active"]
               /\ meter' = TRUE
               /\ mainpc' = "instruments"
               /\ UNCHANGED <<registered, defers, shutdownLog>>
          ELSE Fatal
    /\ UNCHANGED <<metrics, reqVars, store, refVars, samplerVars>>

\* initializeMetrics(): the next instrument of the table is created, or its
\* creation fails and log.Fatalf ends the process
createInstrument ==
    /\ mainpc = "instruments"
    /\ Len(registered) < Len(InstrumentTable)
    /\ \E ok \in BOOLEAN :
          IF ok
          THEN /\ registered' =
                     Append(registered, InstrumentTable[Len(registered) + 1].name)
               /\ UNCHANGED <<mainpc, meter, providers, defers, shutdownLog>>
          ELSE Fatal
    /\ UNCHANGED <<metrics, reqVars, store, refVars, samplerVars>>

InstrumentsCreated_NotAwaited == TRUE

\* initializeMetrics() has returned nil: every instrument of the table exists
InstrumentsCreated == Len(registered) = Len(InstrumentTable)

\* go collectSystemMetrics(ctx); return the shutdown closure;
\* defer shutdownMetrics()
initMetricsReturns ==
    /\ mainpc = "instruments"
    /\ InstrumentsCreated
    /\ spc' = [spc EXCEPT !["system"] = "select"]
    /\ defers' = <<"shutdownMetrics">> \o defers
    /\ mainpc' = "dbHandle"
    /\ UNCHANGED <<metrics, reqVars, store, refVars, registered, meter, providers,
                   shutdownLog, ctxDone, tick, ticks, lastHeap, lastGoroutines,
                   lastOpen>>

\* sqlDB, err := DB.DB(); go trackDBConnections(ctx, sqlDB); UpdateTaskMetrics(ctx)
startTracking ==
    /\ mainpc = "dbHandle"
    /\ \E ok \in BOOLEAN :
          IF ok
          THEN /\ spc' = [spc EXCEPT !["dbconn"] = "select"]
               /\ mainpc' = "refresh"
               /\ StartRefresh(0, TRUE)
               /\ UNCHANGED <<registered, meter, providers, defers, shutdownLog>>
          ELSE Fatal /\ UNCHANGED <<spc, refVars>>
    /\ UNCHANGED <<metrics, reqVars, store, ctxDone, tick, ticks, lastHeap,
                   lastGoroutines, lastOpen>>

\* the routes and middlewares are installed; r.Run(":8080")
serve ==
    /\ mainpc = "refresh"
    /\ refpc[0] = "done"
    /\ mainpc' = "serving"
    /\ UNCHANGED <<metrics, reqVars, store, refVars, samplerVars, registered, meter,
                   providers, defers, shutdownLog>>

runReturns_CancelsContext ==
    /\ mainpc = "serving"
    /\ mainpc' = "deferred"
    /\ ctxDone' = TRUE
    /\ UNCHANGED <<metrics, reqVars, store, refVars, tick, spc, ticks, lastHeap,
                   lastGoroutines, lastOpen, registered, meter, providers, defers,
                   shutdownLog>>

\* r.Run returns (it returns only with an error); main returns
runReturns ==
    /\ mainpc = "serving"
    /\ mainpc' = "deferred"
    /\ UNCHANGED <<metrics, reqVars, store, refVars, samplerVars, registered, meter,
                   providers, defers, shutdownLog>>

\* the provider a shutdown handle closes: tp.Shutdown(ctx) / mp.Shutdown(ctx)
HandleCloses(h) == IF h = "shutdownTracer" THEN "trace" ELSE "metric"

\* the deferred calls of main run, the last deferred first
runDeferred ==
    /\ mainpc = "deferred"
    /\ defers # <<>>
    /\ providers' = [providers EXCEPT ![HandleCloses(Head(defers))] = "shutdown"]
    /\ shutdownLog' = Append(shutdownLog, HandleCloses(Head(defers)))
    /\ defers' = Tail(defers)
    /\ UNCHANGED <<metrics, reqVars, store, refVars, samplerVars, mainpc, registered,
                   meter>>

\* the process ends, and with it every goroutine
exit ==
    /\ mainpc = "deferred"
    /\ defers = <<>>
    /\ mainpc' = "exited"
    /\ UNCHANGED <<metrics, reqVars, store, refVars, samplerVars, registered, meter,
                   providers, defers, shutdownLog>>

\* The process from its start: nothing registered, no goroutine started, the
\* database holding any set of tasks.
MainInit ==
    /\ metrics = [i \in Instruments |-> <<>>]
    /\ route = [r \in Reqs |-> "none"]
    /\ clen = [r \in Reqs |-> 0]
    /\ mwpc = [r \in Reqs |-> "idle"]
    /\ hpc = [r \in Reqs |-> "idle"]
    /\ status = [r \in Reqs |-> 200]
    /\ mwlog = [r \in Reqs |-> <<>>]
    /\ calls = [r \in Reqs |-> <<>>]
    /\ tid = [r \in Reqs |-> 0]
    /\ todo = [r \in Reqs |-> 0]
    /\ task = [r \in Reqs |-> "none"]
    /\ store \in [TaskIds -> {"absent", "open", "done"}]
    /\ refpc = [k \in Runs |-> "none"]
    /\ refN = [k \in Runs |-> 0]
    /\ refSync = [k \in Runs |-> k = 0]
    /\ refFailed = [k \in Runs |-> FALSE]
    /\ ctxDone = FALSE
    /\ tick = [s \in Samplers |-> FALSE]
    /\ spc = [s \in Samplers |-> "none"]
    /\ ticks = [s \in Samplers |-> 0]
    /\ lastHeap = 0
    /\ lastGoroutines = 0
    /\ lastOpen = 0
    /\ mainpc = "initDB"
    /\ registered = <<>>
    /\ meter = FALSE
    /\ providers = [trace |-> "none", metric |-> "none"]
    /\ defers = <<>>
    /\ shutdownLog = <<>>

\* main with its sampler goroutines; the context is context.Background(),
\* which nothing cancels
MainNext ==
    \/ initDB
    \/ initTracer
    \/ initMetrics
    \/ createInstrument
    \/ initMetricsReturns
    \/ startTracking
    \/ RefreshTotal(0)
    \/ RefreshTotalAdd(0)
    \/ RefreshCompleted(0)
    \/ RefreshCompletedAdd(0)
    \/ serve
    \/ runReturns
    \/ runDeferred
    \/ exit
    \/ \E s \in Samplers : TickerFires(s)
    \/ CollectTick
    \/ TrackConnectionsTick

MainSpec == MainInit /\ [][MainNext]_vars

\* the statements of the main goroutine other than the return of r.Run, which
\* happens only when the server fails
MainProgress ==
    \/ initDB
    \/ initTracer
    \/ initMetrics
    \/ createInstrument
    \/ initMetricsReturns
    \/ startTracking
    \/ RefreshTotal(0)
    \/ RefreshTotalAdd(0)
    \/ RefreshCompleted(0)
    \/ RefreshCompletedAdd(0)
    \/ serve
    \/ runDeferred
    \/ exit

\* MainSpec under the scheduler's fairness: the main goroutine and each sampler
\* goroutine take their next step when it stays possible, and the tickers fire
MainFairSpec ==
    /\ MainInit
    /\ [][MainNext]_vars
    /\ WF_vars(MainProgress)
    /\ \A s \in Samplers : WF_vars(TickerFires(s))
    /\ WF_vars(CollectTick)
    /\ WF_vars(TrackConnectionsTick)

\* ------------------------------------------------------------------ properties
Operations ==
    { "query_all_tasks", "create_task", "find_task", "update_task",
      "delete_task", "delete_all_tasks" }

\* every invocation of TrackDBOperation so far, as <<request, index>>
AllCalls == UNION { { <<r, i>> : i \in 1..Len(calls[r]) } : r \in Reqs }

CallAt(p) == calls[p[1]][p[2]]

\* the emissions of request r to one instrument, whoever made them
EmissionsTo(r, inst) ==
    LET ToInst(e) == e.inst = inst IN SelectSeq(mwlog[r], ToInst)

\* the emissions the middleware itself made for request r, as <<instrument, value>>
MwSequence(r) ==
    LET ByMw(e) == e.by = "mw"
        own == SelectSeq(mwlog[r], ByMw)
    IN  [i \in 1..Len(own) |-> <<own[i].inst, own[i].val>>]

IsPrefix(s, t) == Len(s) <= Len(t) /\ \A i \in 1..Len(s) : s[i] = t[i]

LeftMiddleware(r) == mwpc[r] \in {"done", "panicked"}

NoRequestInside == \A r \in Reqs : mwpc[r] = "idle" \/ LeftMiddleware(r)

NoRefreshRunning == \A k \in Runs : refpc[k] \in {"none", "done"}

\* C1: once every request of a burst has left MetricsMiddleware (returned or
\* unwound by a panic of its handler), http_active_requests is back at the
\* value it had before the burst (0).
C1_ActiveReturnsToBaseline ==
    NoRequestInside => Value("http_active_requests", NoAttrs) = 0

\* C2: when no request and no refresh is running (so the refresh of the last
\* mutation has completed, and no count query failed), tasks_total equals the
\* number of task records and tasks_completed_total the number of completed ones.
C2_GaugesEqualStoreCounts ==
    (NoRequestInside /\ NoRefreshRunning /\ \A k \in Runs : ~refFailed[k])
        => /\ Value("tasks_total", NoAttrs) = TotalCount
           /\ Value("tasks_completed_total", NoAttrs) = CompletedCount

\* C3: whenever the shutdown handles of main run, the trace provider is shut
\* down before the metric provider.
C3_TraceShutdownFirst ==
    \A i \in 1..Len(shutdownLog) :
        shutdownLog[i] = "metric" => \E j \in 1..(i - 1) : shutdownLog[j] = "trace"

\* C4: every invocation of TrackDBOperation whose work returned (nil or an
\* error) made exactly one latency observation, tagged with its operation and
\* with success = (the work returned nil), and none before the work returned;
\* db_operations_total{operation} equals the number of invocations of that
\* operation and db_operation_duration_seconds{operation, success} the number
\* of returned invocations with that outcome, over all concurrent requests.
C4_OneIncrementOneObservation ==
    /\ \A p \in AllCalls :
          IF CallAt(p).pc = "returned"
          THEN CallAt(p).obs = << [operation |-> CallAt(p).op,
                                   success |-> CallAt(p).result = "nil"] >>
          ELSE CallAt(p).obs = <<>>
    /\ \A op \in Operations :
          /\ Value("db_operations_total", [operation |-> op])
                = Cardinality({ p \in AllCalls : CallAt(p).op = op })
          /\ \A ok \in BOOLEAN :
                Value("db_operation_duration_seconds",
                      [operation |-> op, success |-> ok])
                  = Cardinality({ p \in AllCalls :
                        /\ CallAt(p).op = op
                        /\ CallAt(p).pc = "returned"
                        /\ (CallAt(p).result = "nil") = ok })

\* two concurrent requests whose tracked operations returned, one nil, one an error
C4_Witness ==
    \E p, q \in AllCalls :
        /\ p[1] # q[1]
        /\ CallAt(p).pc = "returned" /\ CallAt(p).result = "nil"
        /\ CallAt(q).pc = "returned" /\ CallAt(q).result = "err"

\* C5: TrackDBOperation runs the wrapped work exactly once (not at all only
\* while it has not reached the call, never twice) and hands its caller the
\* very value the work returned; the caller acts on that value (an error
\* becomes the handler's error status).
C5_WorkRunOnceResultUnchanged ==
    \A p \in AllCalls :
        /\ CallAt(p).runs = (IF CallAt(p).pc = "work" THEN 0 ELSE 1)
        /\ CallAt(p).pc = "returned" =>
              /\ CallAt(p).result \in {"nil", "err"}
              /\ CallAt(p).ret = CallAt(p).result
        /\ (CallAt(p).pc = "returned" /\ CallAt(p).result = "err") =>
              /\ p[2] = Len(calls[p[1]])
              /\ hpc[p[1]] = "done"
              /\ status[p[1]] = ErrStatus(CallAt(p).op)

\* a tracked operation that failed and one that succeeded have both returned
C5_Witness ==
    \E p, q \in AllCalls :
        /\ CallAt(p).pc = "returned" /\ CallAt(p).ret = "err"
        /\ CallAt(q).pc = "returned" /\ CallAt(q).ret = "nil"

\* C6: once the context of the sampler loops is cancelled, no instrument
\* receives another observation.
C6_NoEmissionAfterCancel == [][ctxDone => metrics' = metrics]_vars

\* C7: every request that has left MetricsMiddleware contributed exactly one
\* +1 to http_requests_total, tagged with its method, route and final status.
C7_OneCountPerRequest ==
    \A r \in Reqs :
        LeftMiddleware(r) =>
            /\ Len(EmissionsTo(r, "http_requests_total")) = 1
            /\ EmissionsTo(r, "http_requests_total")[1].attrs = MethodPathStatus(r)

\* the order of the middleware's emissions for request r
ExpectedOrder(r) ==
    << <<"http_active_requests", 1>> >>
    \o (IF clen[r] > 0 THEN << <<"http_request_size_bytes", clen[r]>> >> ELSE <<>>)
    \o << <<"http_requests_total", 1>>,
          <<"http_request_duration_seconds", 1>>,
          <<"http_response_size_bytes", 1>>,
          <<"http_active_requests", -1>> >>

\* C8: the middleware's emissions of one request are, at every moment, an
\* initial part of: active +1, the request size if the length is positive,
\* requests_total +1, latency, response size, active -1. The downstream
\* handler runs only after the first two steps, a step-4 emission or the
\* decrement is made only after the handler has returned, and a request
\* that left the middleware normally made all of them.
C8_MiddlewareOrder ==
    \A r \in Reqs :
        /\ IsPrefix(MwSequence(r), ExpectedOrder(r))
        /\ hpc[r] # "idle" =>
              Len(MwSequence(r)) >= (IF clen[r] > 0 THEN 2 ELSE 1)
        /\ hpc[r] \in {"idle", "start", "tracking", "bind", "loop", "refresh", "panicked"} =>
              Len(MwSequence(r)) <= (IF clen[r] > 0 THEN 2 ELSE 1)
        /\ mwpc[r] = "done" => MwSequence(r) = ExpectedOrder(r)

\* a request with a body has gone through all steps while another is inside
C8_Witness ==
    \E r, q \in Reqs :
        /\ mwpc[r] = "done" /\ clen[r] > 0 /\ Len(MwSequence(r)) = 6
        /\ mwpc[q] = "latency"

\* C9: after a tick of collectSystemMetrics, memory_usage_bytes{type=heap} is
\* the heap size read on that tick and goroutine_count{type=user} the number
\* of goroutines read on that tick.
C9_SystemGaugesShowLastReading ==
    ticks["system"] > 0 =>
        /\ Value("memory_usage_bytes", [type |-> "heap"]) = lastHeap
        /\ Value("goroutine_count", [type |-> "user"]) = lastGoroutines

\* C10: after a tick of trackDBConnections, the series of db_connections_open
\* without attributes is the number of open connections read on that tick, and
\* every series with pool attributes has the value 0.
C10_OpenConnectionsShowLastReading ==
    ticks["dbconn"] > 0 =>
        /\ Value("db_connections_open", NoAttrs) = lastOpen
        /\ \A a \in DOMAIN metrics["db_connections_open"] :
              a # NoAttrs => metrics["db_connections_open"][a] = 0

RefreshRunning == \E k \in Runs : refpc[k] \notin {"none", "done"}

\* C11: when the process keeps serving and no request arrives, UpdateTaskMetrics
\* is executed again and again, not only once at startup.
C11_RefreshRunsAgainAndAgain ==
    <>[](mainpc = "serving") => []<>RefreshRunning

MutatingRoutes ==
    { "createTask", "updateTask", "deleteTask", "generateTasks", "clearTasks" }

MutationOps == { "create_task", "update_task", "delete_task", "delete_all_tasks" }

\* the handler of r has returned and every storage operation it tracked, the
\* last of them a mutation, returned nil
MutationSucceeded(r) ==
    /\ hpc[r] = "done"
    /\ calls[r] # <<>>
    /\ LastCall(r).op \in MutationOps
    /\ \A i \in 1..Len(calls[r]) : calls[r][i].ret = "nil"

SomeOperationFailed(r) == \E i \in 1..Len(calls[r]) : calls[r][i].ret = "err"

\* the next statement of refresh run k
RefreshStep(k) ==
    \/ RefreshTotal(k)
    \/ RefreshTotalAdd(k)
    \/ RefreshCompleted(k)
    \/ RefreshCompletedAdd(k)

\* C12: a request on a mutating route whose tracked storage operations
\* succeeded has started one run of UpdateTaskMetrics, and that run can always
\* take its next step until it is done (so it completes under fairness); a
\* request one of whose tracked operations returned an error starts no run.
C12_RefreshAfterSuccessOnly ==
    \A r \in Reqs :
        route[r] \in MutatingRoutes =>
            /\ MutationSucceeded(r) => refpc[r] # "none"
            /\ SomeOperationFailed(r) => refpc[r] = "none"
            /\ refpc[r] # "none" =>
                  /\ calls[r] # <<>>
                  /\ LastCall(r).op \in MutationOps
                  /\ LastCall(r).ret = "nil"
            /\ refpc[r] \notin {"none", "done"} => ENABLED RefreshStep(r)
            /\ (hpc[r] = "done" /\ refSync[r] /\ refpc[r] # "none") => refpc[r] = "done"

C12_Witness ==
    \E r, q \in Reqs :
        /\ route[r] = "generateTasks" /\ MutationSucceeded(r)
        /\ Len(calls[r]) = MaxGen /\ refpc[r] = "done"
        /\ route[q] \in MutatingRoutes /\ hpc[q] = "done"
        /\ SomeOperationFailed(q) /\ refpc[q] = "none"

RegisteredNames == { registered[i] : i \in 1..Len(registered) }

\* the instruments some emission has been made to
Touched == { inst \in Instruments : DOMAIN metrics[inst] # {} }

\* a goroutine or a request that emits is running or can start
EmitterActive ==
    \/ \E s \in Samplers : spc[s] # "none"
    \/ RefreshRunning
    \/ \E r \in Reqs : ENABLED MwEnter(r)

\* C13: all twelve instruments are registered exactly once during startup
\* before any emission is attempted: no emission reaches an instrument that is
\* not yet created, and nothing that emits runs before the table is complete.
C13_RegisteredBeforeEmission ==
    /\ Touched \subseteq RegisteredNames
    /\ \A i, j \in 1..Len(registered) : registered[i] = registered[j] => i = j
    /\ RegisteredNames \subseteq Instruments
    /\ EmitterActive =>
          /\ RegisteredNames = Instruments
          /\ Len(registered) = Cardinality(Instruments)

C13_Witness ==
    /\ mainpc = "serving"
    /\ \E r \in Reqs : ENABLED MwEnter(r)
    /\ Len(registered) = Cardinality(Instruments)
    /\ {"memory_usage_bytes", "db_connections_open", "tasks_total"} \subseteq Touched

\* log.Fatalf ended the process before initializeMetrics had returned nil
StartupAborted == mainpc = "fatal" /\ ~InstrumentsCreated

\* C14: when an initialisation step (collector dial, exporter construction, an
\* instrument creation) fails, the process ends with no sampler loop started,
\* no middleware entered and nothing served; traffic is never handled with
\* only part of the instruments registered.
C14_FailedStartupServesNothing ==
    /\ StartupAborted =>
          /\ \A s \in Samplers : spc[s] = "none"
          /\ \A k \in Runs : refpc[k] = "none"
          /\ \A r \in Reqs : ~ENABLED MwEnter(r)
          /\ Touched = {}
          /\ ~ENABLED MainNext
    /\ (mainpc = "serving" \/ \E r \in Reqs : ENABLED MwEnter(r)) =>
          /\ InstrumentsCreated
          /\ RegisteredNames = Instruments

C14_Witness ==
    /\ StartupAborted
    /\ Len(registered) > 0
    /\ providers.metric = "active"

\* the attribute key sets instrument inst has been emitted with
KeySets(inst) == { DOMAIN attrs : attrs \in DOMAIN metrics[inst] }

\* C15: for each instrument, every emission from every call site carries the
\* same set of attribute keys.
C15_OneKeySetPerInstrument ==
    \A inst \in Instruments : Cardinality(KeySets(inst)) <= 1

\* C16: each sampler loop terminates after cancellation: once the context is
\* cancelled every loop returns, whether or not further ticks arrive.
C16_LoopsReturnAfterCancel ==
    \A s \in Samplers : ctxDone ~> (spc[s] = "returned")

C16_Witness ==
    /\ ctxDone
    /\ \A s \in Samplers : spc[s] = "returned" /\ ticks[s] > 0

\* the row of the instrument table a name was created from
TableEntry(name) ==
    CHOOSE e \in { InstrumentTable[i] : i \in 1..Len(InstrumentTable) } : e.name = name

UnitOf_Milliseconds(name) ==
    IF name = "http_request_duration_seconds" THEN "ms" ELSE TableEntry(name).unit

\* metric.WithUnit(...) of the instrument's creation
UnitOf(name) == TableEntry(name).unit

\* the names and units the specification lists, the unit of the three
\* byte-valued instruments left open
ListedUnits(byteUnit) ==
    [ http_requests_total |-> "{request}",
      http_request_duration_seconds |-> "s",
      http_request_size_bytes |-> byteUnit,
      http_response_size_bytes |-> byteUnit,
      http_active_requests |-> "{request}",
      db_operations_total |-> "{operation}",
      db_operation_duration_seconds |-> "s",
      db_connections_open |-> "{connection}",
      tasks_total |-> "{task}",
      tasks_completed_total |-> "{task}",
      memory_usage_bytes |-> byteUnit,
      goroutine_count |-> "{goroutine}" ]

\* what is registered agrees with a list of names and units
RegisteredAsListed(listed) ==
    /\ RegisteredNames \subseteq DOMAIN listed
    /\ \A n \in RegisteredNames : UnitOf(n) = listed[n]
    /\ mainpc = "serving" => RegisteredNames = DOMAIN listed

\* C17: the registered instruments are the twelve listed names, each with the
\* listed unit, the byte-valued ones with the unit bytes; nothing else is
\* registered.
C17_UnitsAsListed == RegisteredAsListed(ListedUnits("bytes"))

\* C17 (amended): the same with the byte-valued instruments registered under
\* the UCUM unit By.
C17_UnitsWithBy == RegisteredAsListed(ListedUnits("By"))

C17_Witness ==
    /\ mainpc = "serving"
    /\ Len(registered) = Len(InstrumentTable)
    /\ UnitOf("memory_usage_bytes") = "By"

\* what the runs standing between the two additions of a gauge have taken
\* off it and not yet put back
Pending(pc) ==
    LET upTo[i \in -1..NumReqs] ==
            IF i = -1 THEN 0
            ELSE upTo[i - 1] + (IF refpc[i] = pc THEN refN[i] ELSE 0)
    IN  upTo[NumReqs]

\* C18: a count query that fails inside UpdateTaskMetrics is not asked again,
\* the run goes on to its end, other runs go on as well, and the run leaves
\* tasks_total and tasks_completed_total where they were: each gauge is off
\* its value only by what the runs now between their two additions took off.
C18_FailedQueryChangesNothing ==
    /\ \A k \in Runs :
          /\ refFailed[k] => refpc[k] \notin {"none", "total"}
          /\ (refFailed[k] /\ refpc[k] = "totalAdd") => refN[k] = 0
          /\ refpc[k] \notin {"none", "done"} => ENABLED RefreshStep(k)
    /\ Value("tasks_total", NoAttrs) = 0 - Pending("totalAdd")
    /\ Value("tasks_completed_total", NoAttrs) = 0 - Pending("completedAdd")

C18_Witness ==
    \E k, j \in Runs :
        /\ k < j
        /\ refFailed[k] /\ refpc[k] = "done"
        /\ ~refFailed[j] /\ refpc[j] = "done"
        /\ TotalCount > 0
        /\ Value("tasks_total", NoAttrs) = 0

\* request r is past the request-size step of the middleware
PastSizeStep(r) == mwpc[r] \notin {"idle", "size"}

\* C19: the middleware records one http_request_size_bytes observation, tagged
\* with method and route only, for a request exactly when its ContentLength is
\* positive, none when it is 0 or negative; the observation is made right
\* after the initial increment, before the downstream handler is invoked.
C19_RequestSizeIffPositiveLength ==
    /\ \A r \in Reqs :
          LET e == EmissionsTo(r, "http_request_size_bytes")
          IN  /\ Len(e) = IF PastSizeStep(r) /\ clen[r] > 0 THEN 1 ELSE 0
              /\ ~PastSizeStep(r) => hpc[r] = "idle"
              /\ Len(e) = 1 =>
                    /\ mwlog[r][2] =
                          Emission("http_request_size_bytes", clen[r],
                                   [method |-> Method(route[r]),
                                    path |-> FullPath(route[r])], "mw")
                    /\ \A i \in 1..Len(mwlog[r]) :
                          mwlog[r][i].by = "handler" => i > 2
    /\ \A a \in DOMAIN metrics["http_request_size_bytes"] :
          /\ DOMAIN a = {"method", "path"}
          /\ metrics["http_request_size_bytes"][a] =
                Cardinality({ r \in Reqs : /\ PastSizeStep(r)
                                           /\ clen[r] > 0
                                           /\ MethodPath(r) = a })

C19_Witness ==
    \E r, q \in Reqs :
        /\ clen[r] > 0 /\ clen[q] < 0
        /\ LeftMiddleware(r) /\ LeftMiddleware(q)
        /\ Len(EmissionsTo(r, "http_request_size_bytes")) = 1
        /\ Len(EmissionsTo(q, "http_request_size_bytes")) = 0

\* request r is between the increment and the decrement of the middleware
InFlight(r) == mwpc[r] \in {"size", "next", "count", "latency", "respsize", "exit"}

NoHandlerPanicked == \A r \in Reqs : mwpc[r] # "panicked"

\* C20: while no downstream handler has panicked, http_active_requests equals
\* the number of requests between the middleware's increment and decrement,
\* and is never negative.
C20_ActiveEqualsInFlight ==
    NoHandlerPanicked =>
        /\ Value("http_active_requests", NoAttrs) =
              Cardinality({ r \in Reqs : InFlight(r) })
        /\ Value("http_active_requests", NoAttrs) >= 0
        /\ DOMAIN metrics["http_active_requests"] \subseteq {NoAttrs}

C20_Witness ==
    /\ NoHandlerPanicked
    /\ \E r, q \in Reqs : mwpc[r] = "done" /\ InFlight(q) /\ hpc[q] = "tracking"
    /\ Value("http_active_requests", NoAttrs) = 1

\* some run of UpdateTaskMetrics stands between the two additions it makes
\* to a gauge (pc names the position before the second one)
BetweenAdditions(pc) == \E k \in Runs : refpc[k] = pc

\* C21: under any interleaving of the runs of UpdateTaskMetrics, tasks_total
\* and tasks_completed_total are never positive, and each is exactly 0
\* whenever no run is between its two additions to it, whatever the store
\* contains.
C21_GaugesNeverPositive ==
    /\ Value("tasks_total", NoAttrs) <= 0
    /\ Value("tasks_completed_total", NoAttrs) <= 0
    /\ ~BetweenAdditions("totalAdd") => Value("tasks_total", NoAttrs) = 0
    /\ ~BetweenAdditions("completedAdd") =>
          Value("tasks_completed_total", NoAttrs) = 0
    /\ \A inst \in {"tasks_total", "tasks_completed_total"} :
          DOMAIN metrics[inst] \subseteq {NoAttrs}

\* two runs at once between their additions over a store that holds a task,
\* and a state with a task stored and nothing between additions
C21_Witness ==
    /\ TotalCount > 0
    /\ \E k, j \in Runs :
          /\ k # j
          /\ refpc[k] = "totalAdd" /\ refN[k] > 0
          /\ refpc[j] = "totalAdd" /\ refN[j] > 0
    /\ Value("tasks_total", NoAttrs) < 0 - 1

\* dbOperations.Add(ctx, 1, operation) made so far for one operation
Increments(op) == Value("db_operations_total", [operation |-> op])

\* dbOperationLatency.Record(...) made so far for one operation, either outcome
Observations(op) ==
    Value("db_operation_duration_seconds", [operation |-> op, success |-> TRUE])
      + Value("db_operation_duration_seconds", [operation |-> op, success |-> FALSE])

\* the invocations of one operation at the given positions of TrackDBOperation
CallsAt(op, pcs) == { p \in AllCalls : CallAt(p).op = op /\ CallAt(p).pc \in pcs }

\* C22: the increments of db_operations_total are at least the latency
\* observations, and exceed them by the number of tracked operations in flight
\* (incremented, latency not yet recorded) plus the number whose work
\* panicked; this holds for each operation, and the instruments hold no
\* other series, so it holds for the totals.
C22_IncrementsCoverObservations ==
    /\ \A op \in Operations :
          /\ Increments(op) >= Observations(op)
          /\ Increments(op) - Observations(op) =
                Cardinality(CallsAt(op, {"work", "record"}))
                  + Cardinality(CallsAt(op, {"panicked"}))
    /\ DOMAIN metrics["db_operations_total"] \subseteq
          { [operation |-> op] : op \in Operations }
    /\ DOMAIN metrics["db_operation_duration_seconds"] \subseteq
          { [operation |-> op, success |-> ok] : op \in Operations, ok \in BOOLEAN }

\* at once: one operation in flight with its work done and its latency not
\* yet recorded, and one whose work panicked
C22_Witness ==
    \E q, w \in AllCalls :
        /\ CallAt(q).pc = "record"
        /\ CallAt(w).pc = "panicked"
        /\ CallAt(q).op = CallAt(w).op
        /\ Increments(CallAt(w).op) = Observations(CallAt(w).op) + 2

\* case <-ticker.C: of the loop of sampler s
SamplerTick(s) == IF s = "system" THEN CollectTick ELSE TrackConnectionsTick

BothHandlesRun == Len(shutdownLog) = 2

\* C23: the context of both sampler loops is the background context of main,
\* which is never cancelled: in every reachable state, the states after both
\* shutdown handles have run included, no loop has returned or can return,
\* and while the process lives each started loop can still handle a tick
\* (in the model: as long as it has ticks left).
C23_SamplersNeverExit ==
    /\ ~ctxDone
    /\ \A s \in Samplers :
          /\ spc[s] # "returned"
          /\ ~ENABLED SamplerReturns(s)
          /\ (ProcessAlive /\ spc[s] = "select" /\ ticks[s] < MaxTicks) =>
                IF tick[s] THEN ENABLED SamplerTick(s) ELSE ENABLED TickerFires(s)
    /\ (BothHandlesRun /\ ProcessAlive) => \A s \in Samplers : spc[s] = "select"

\* both shutdown handles have run and each loop has a tick waiting for it
C23_Witness ==
    /\ BothHandlesRun
    /\ ProcessAlive
    /\ \A s \in Samplers : spc[s] = "select" /\ tick[s]

====
